---------------------------- MODULE Spec2Model ----------------------------
(***************************************************************************)
(* A model of transcode.py: main() and the functions it calls.             *)
(*                                                                         *)
(* Text is a sequence of tokens.  A token stands for a run of characters   *)
(* that no string operation of the program can cut in two:                 *)
(*   "face"    the four characters f a c e                                 *)
(*   "size="   the five characters s i z e =                               *)
(*   "dq"      one double quote                                            *)
(*   "0".."9"  one decimal digit                                           *)
(*   "-", "+"  a sign character                                            *)
(*   "x"       any other printable text without the characters above       *)
(*   "CR","LF" carriage return, line feed                                  *)
(* A file's content is the token sequence of what is on disk; the lines    *)
(* Python sees are what text-mode decoding makes of it.                    *)
(***************************************************************************)
EXTENDS Integers, Sequences, FiniteSets

\* ------------------------------------------------------------------ bounds
\* the longest file of the rewriter's specification, in items (an item is a
\* piece of text, an attribute or a line terminator)
MaxItems == 4
\* how many times the operator may press Ctrl-C during one run
MaxInterrupts == 2

\* ------------------------------------------------------------ python text
Digits == <<"0", "1", "2", "3", "4", "5", "6", "7", "8", "9">>

IsDigit(t) == \E d \in 1..10 : Digits[d] = t

DigitVal(t) == (CHOOSE d \in 1..10 : Digits[d] = t) - 1

\* sub occurs in s at position p
OccursAt(s, sub, p) ==
    /\ p >= 1
    /\ p + Len(sub) - 1 <= Len(s)
    /\ SubSeq(s, p, p + Len(sub) - 1) = sub

\* str.find, 1-based; 0 when sub does not occur
Find(s, sub) ==
    IF \E p \in 1..Len(s) : OccursAt(s, sub, p)
    THEN CHOOSE p \in 1..Len(s) :
             /\ OccursAt(s, sub, p)
             /\ \A q \in 1..(p - 1) : ~OccursAt(s, sub, q)
    ELSE 0

\* `sub in s`
PyIn(sub, s) == Find(s, sub) # 0

RECURSIVE PySplit(_, _)
\* s.split(sep): the pieces between the occurrences of sep, left to right
PySplit(s, sep) ==
    LET p == Find(s, sep)
    IN  IF p = 0 THEN <<s>>
        ELSE <<SubSeq(s, 1, p - 1)>>
                 \o PySplit(SubSeq(s, p + Len(sep), Len(s)), sep)

\* s.replace(old, new, 1): what line 39 would do with a count of one
PyReplaceFirst(s, old, new) ==
    LET p == Find(s, old)
    IN  IF p = 0 THEN s
        ELSE SubSeq(s, 1, p - 1) \o new \o SubSeq(s, p + Len(old), Len(s))

RECURSIVE PyReplace(_, _, _)
\* s.replace(old, new): every non-overlapping occurrence, left to right
PyReplace(s, old, new) ==
    LET p == Find(s, old)
    IN  IF p = 0 THEN s
        ELSE SubSeq(s, 1, p - 1) \o new
                 \o PyReplace(SubSeq(s, p + Len(old), Len(s)), old, new)

IsSpace(t) == t \in {"CR", "LF"}

RECURSIVE PyStrip(_)
\* str.strip() of the white space int() ignores
PyStrip(s) ==
    IF s = <<>> THEN s
    ELSE IF IsSpace(s[1]) THEN PyStrip(Tail(s))
    ELSE IF IsSpace(s[Len(s)]) THEN PyStrip(SubSeq(s, 1, Len(s) - 1))
    ELSE s

RECURSIVE DecimalValue(_)
DecimalValue(ds) ==
    IF ds = <<>> THEN 0
    ELSE 10 * DecimalValue(SubSeq(ds, 1, Len(ds) - 1)) + DigitVal(ds[Len(ds)])

\* int(s): [ok |-> FALSE] stands for ValueError
PyInt(s) ==
    LET t == PyStrip(s)
        signed == t # <<>> /\ t[1] \in {"-", "+"}
        ds == IF signed THEN Tail(t) ELSE t
    IN  IF ds # <<>> /\ \A k \in 1..Len(ds) : IsDigit(ds[k])
        THEN [ok |-> TRUE,
              val |-> IF signed /\ t[1] = "-"
                      THEN 0 - DecimalValue(ds) ELSE DecimalValue(ds)]
        ELSE [ok |-> FALSE, val |-> 0]

RECURSIVE PyStr(_)
\* str(n) of an integer
PyStr(n) ==
    IF n < 0 THEN <<"-">> \o PyStr(0 - n)
    ELSE IF n < 10 THEN <<Digits[n + 1]>>
    ELSE PyStr(n \div 10) \o <<Digits[(n % 10) + 1]>>

\* the text size="<n>" that the f-strings of line 39 build
SizeAttr(n) == <<"size=", "dq">> \o PyStr(n) \o <<"dq">>

\* ----------------------------------------------------- the cubic mapping
\* The coefficients A, B, C, D scaled by 10^9.
CoefA == 114092
CoefB == -18148100
CoefC == 989770000
CoefD == -10483000

\* int(A*size^3 + B*size^2 + C*size + D), truncated toward zero.  The
\* polynomial is evaluated exactly in pieces that fit a 32-bit integer; the
\* result equals the floating-point one for every size in 0..199.
map_font_size(size) ==
    LET q  == (CoefA * size + CoefB) * size + CoefC
        qh == q \div 100000
        ql == q % 100000
        t  == qh * size
        th == t \div 10000
        tl == t % 10000
        r  == tl * 100000 + ql * size + CoefD
        fl == th + (r \div 1000000000)
    IN  IF fl < 0 /\ r % 1000000000 # 0 THEN fl + 1 ELSE fl

\* ------------------------------------------------------- text-mode files
RECURSIVE Decode(_)
\* reading with newline=None: CR LF and a lone CR both become LF
Decode(c) ==
    IF c = <<>> THEN <<>>
    ELSE IF c[1] = "CR"
         THEN IF Len(c) >= 2 /\ c[2] = "LF"
              THEN <<"LF">> \o Decode(SubSeq(c, 3, Len(c)))
              ELSE <<"LF">> \o Decode(Tail(c))
         ELSE <<c[1]>> \o Decode(Tail(c))

RECURSIVE SplitLines(_)
\* the lines of a text, each with its terminator
SplitLines(t) ==
    LET p == Find(t, <<"LF">>)
    IN  IF t = <<>> THEN <<>>
        ELSE IF p = 0 THEN <<t>>
        ELSE <<SubSeq(t, 1, p)>> \o SplitLines(SubSeq(t, p + 1, Len(t)))

\* file.readlines() of a file opened "r"
ReadLines(c) == SplitLines(Decode(c))

RECURSIVE Encode(_, _)
\* writing with newline=None: every LF becomes os.linesep
Encode(t, sep) ==
    IF t = <<>> THEN <<>>
    ELSE (IF t[1] = "LF" THEN sep ELSE <<t[1]>>) \o Encode(Tail(t), sep)

RECURSIVE Concat(_)
Concat(ls) == IF ls = <<>> THEN <<>> ELSE ls[1] \o Concat(Tail(ls))


\* ------------------------------------------------------------ the program
VARIABLES
    args,                \* the namespace parse_arguments() returned
    ffmpeg_on_path,      \* shutil.which("ffmpeg") finds the binary
    ffprobe_on_path,     \* the probing binary can be started
    input_is_file,       \* input_file.is_file()
    platform,            \* "posix" or "nt": decides os.linesep and tempdir
    fs,                  \* the subtitle files on disk
    fs0,                 \* the subtitle files on disk when main() began
    pc,                  \* main()'s position
    temp_subtitle_file,  \* main()'s local; <<>> while unbound
    ffmpeg_cmd,          \* main()'s local
    process,             \* main()'s local: 0 is None, k the k-th child
    children,            \* every child process spawned, in order
    pending,             \* the exception in flight inside the outer try
    ending,              \* how main() ended; "running" until then
    log,                 \* what main() printed and looked at, in order
    lines,               \* process_subtitles' local
    idx,                 \* process_subtitles' loop position
    buf,                 \* what process_subtitles wrote and has not flushed
    interrupts           \* how many KeyboardInterrupts were delivered

envVars == <<args, ffmpeg_on_path, ffprobe_on_path, input_is_file, platform, fs0>>
rwVars == <<lines, idx, buf>>
vars == <<args, ffmpeg_on_path, ffprobe_on_path, input_is_file, platform, fs,
          fs0, pc, temp_subtitle_file, ffmpeg_cmd, process, children, pending,
          ending, log, lines, idx, buf, interrupts>>

\* an optional value: None, or <<v>>
None == <<>>

InputStem == <<"in">>
InputFile == InputStem \o <<".mkv">>
UserSub == <<"sub.srt">>
TmpPosix == <<"/tmp/", "tmpab12.srt">>
TmpNt == <<"C", ":", "bs", "Temp", "bs", "tmpab12.srt">>
SubPaths == {UserSub, TmpPosix, TmpNt}

\* os.linesep
LineSep(pf) == IF pf = "nt" THEN <<"CR", "LF">> ELSE <<"LF">>

Absent == [exists |-> FALSE, data |-> <<>>]
FileOf(c) == [exists |-> TRUE, data |-> c]

\* Path.is_file() of a subtitle path
IsFile(f, p) == f[p].exists

\* a subtitle file with one font tag and one plain line
GoodFile == <<"x", "face", "size=", "dq", "3", "2", "dq", "x", "LF", "x", "LF">>
\* a subtitle file whose second line names a face and no size
BadFile == <<"x", "LF", "face", "x", "LF", "x", "LF">>
SmallFiles == {GoodFile, BadFile}

ArgSets ==
    [dump_subtitles : BOOLEAN,
     subtitle_track : {None, <<1>>},
     subtitle_file : {None, <<UserSub>>},
     font_size : {None, <<10>>},
     use_gpu : BOOLEAN,
     audio_track : {None, <<2>>}]

\* ---------------------------------------------------------------- helpers
Logged(msg) == Append(log, msg)

\* a child process is started: what it runs, and that it has neither
\* exited nor written its output file yet
Spawn(bin, argv) ==
    Append(children,
           [bin |-> bin, argv |-> argv, status |-> "running", rc |-> 0,
            wrote |-> FALSE])

\* sys.exit(n) or an exception leaving main() outside the try statement
Leave(how) ==
    /\ ending' = how
    /\ pc' = "done"

\* an exception (or sys.exit) raised inside the outer try: run the finally
Raise(exc) ==
    /\ pending' = exc
    /\ pc' = "finally"

\* the finally clause is over: the exception in flight leaves main()
FinishWith(exc) == Leave(IF exc = "none" THEN "return" ELSE exc)

\* the exit status of the interpreter for each way main() can end
ExitStatus(how) ==
    CASE how \in {"return", "SystemExit0"} -> 0
      [] how = "KeyboardInterrupt" -> 130
      [] OTHER -> 1

\* -------------------------------------------------------- initial states
InitLocals ==
    /\ fs0 = fs
    /\ ffmpeg_cmd = <<>>
    /\ process = 0
    /\ children = <<>>
    /\ pending = "none"
    /\ ending = "running"
    /\ lines = <<>>
    /\ idx = 0
    /\ buf = <<>>
    /\ interrupts = 0

\* main() is entered, parse_arguments() has returned
Init ==
    /\ args \in ArgSets
    /\ ffmpeg_on_path \in BOOLEAN
    /\ ffprobe_on_path \in BOOLEAN
    /\ input_is_file \in BOOLEAN
    /\ platform \in {"posix", "nt"}
    /\ \E u \in {Absent} \cup {FileOf(c) : c \in SmallFiles} :
           fs = [p \in SubPaths |-> IF p = UserSub THEN u ELSE Absent]
    /\ pc = "check_ffmpeg"
    /\ temp_subtitle_file = <<>>
    /\ log = <<>>
    /\ InitLocals

\* the pieces the files of the rewriter's specification are made of
Attr(d) == <<"size=", "dq">> \o d \o <<"dq">>
Items ==
    {<<"x">>, <<"face">>, <<"CR">>, <<"LF">>,
     Attr(<<"3", "2">>), Attr(<<"0", "3", "2">>), Attr(<<"5">>), Attr(<<"x">>)}

RECURSIVE FilesUpTo(_)
FilesUpTo(n) ==
    IF n = 0 THEN {<<>>}
    ELSE LET S == FilesUpTo(n - 1)
         IN  S \cup {f \o it : f \in S, it \in Items}

\* what main() has logged when it calls process_subtitles on the user's file
LogBeforeRewrite ==
    <<<<"which", "ffmpeg">>, <<"is_file", "input">>, <<"is_file", "subtitle">>,
      <<"print", "Processing subtitle font sizes...">>>>

\* main() is at line 138 with -s sub.srt: process_subtitles is entered on a
\* file of the user
InitRewrite ==
    /\ args \in {a \in ArgSets :
                    /\ ~a.dump_subtitles
                    /\ a.subtitle_track = None
                    /\ a.subtitle_file = <<UserSub>>
                    /\ ~a.use_gpu
                    /\ a.audio_track = None}
    /\ ffmpeg_on_path = TRUE
    /\ ffprobe_on_path = TRUE
    /\ input_is_file = TRUE
    /\ platform \in {"posix", "nt"}
    /\ \E c \in FilesUpTo(MaxItems) :
           fs = [p \in SubPaths |-> IF p = UserSub THEN FileOf(c) ELSE Absent]
    /\ pc = "rw_read"
    /\ temp_subtitle_file = UserSub
    /\ log = LogBeforeRewrite
    /\ InitLocals

\* ------------------------------------------------------ process_subtitles
\* closing the file opened "w": what was written reaches the disk
Flush(f, path, written, pf) ==
    [f EXCEPT ![path] = FileOf(Encode(Concat(written), LineSep(pf)))]

\* the body of the loop for one line: the exception it raises, or the line
\* it writes
RewriteLine(line, forced_size) ==
    IF ~PyIn(<<"face">>, line)
    THEN [exc |-> "none", line |-> line]
    ELSE LET parts == PySplit(line, <<"size=", "dq">>)
         IN  IF Len(parts) < 2
             THEN [exc |-> "IndexError", line |-> <<>>]
             ELSE LET size == PyInt(PySplit(parts[2], <<"dq">>)[1])
                      new_size == IF forced_size # None
                                  THEN forced_size[1]
                                  ELSE map_font_size(size.val)
                  IN  IF ~size.ok
                      THEN [exc |-> "ValueError", line |-> <<>>]
                      ELSE [exc |-> "none",
                            line |-> PyReplace(line, SizeAttr(size.val),
                                               SizeAttr(new_size))]

\* lines 27-28: open "r", readlines
RwRead ==
    /\ pc = "rw_read"
    /\ IF IsFile(fs, temp_subtitle_file)
       THEN /\ lines' = ReadLines(fs[temp_subtitle_file].data)
            /\ pc' = "rw_open"
            /\ UNCHANGED pending
       ELSE /\ Raise("FileNotFoundError")
            /\ UNCHANGED lines
    /\ UNCHANGED <<envVars, fs, temp_subtitle_file, ffmpeg_cmd, process,
                   children, ending, log, idx, buf, interrupts>>

\* line 30: open "w" truncates the file
RwOpen ==
    /\ pc = "rw_open"
    /\ fs' = [fs EXCEPT ![temp_subtitle_file] = FileOf(<<>>)]
    /\ buf' = <<>>
    /\ idx' = 1
    /\ pc' = "rw_loop"
    /\ UNCHANGED <<envVars, temp_subtitle_file, ffmpeg_cmd, process, children,
                   pending, ending, log, lines, interrupts>>

\* lines 31-40: one iteration that writes its line
RwWrite ==
    /\ pc = "rw_loop"
    /\ idx <= Len(lines)
    /\ LET r == RewriteLine(lines[idx], args.font_size)
       IN  /\ r.exc = "none"
           /\ buf' = Append(buf, r.line)
    /\ idx' = idx + 1
    /\ UNCHANGED <<envVars, fs, pc, temp_subtitle_file, ffmpeg_cmd, process,
                   children, pending, ending, log, lines, interrupts>>

\* lines 32-33: one iteration that raises; the with statement closes the file
RwAbort ==
    /\ pc = "rw_loop"
    /\ idx <= Len(lines)
    /\ LET r == RewriteLine(lines[idx], args.font_size)
       IN  /\ r.exc # "none"
           /\ Raise(r.exc)
    /\ fs' = Flush(fs, temp_subtitle_file, buf, platform)
    /\ UNCHANGED <<envVars, temp_subtitle_file, ffmpeg_cmd, process, children,
                   ending, log, lines, idx, buf, interrupts>>

\* the loop is over: the with statement closes the file
RwClose ==
    /\ pc = "rw_loop"
    /\ idx > Len(lines)
    /\ fs' = Flush(fs, temp_subtitle_file, buf, platform)
    /\ pc' = "build_cmd"
    /\ UNCHANGED <<envVars, temp_subtitle_file, ffmpeg_cmd, process, children,
                   pending, ending, log, lines, idx, buf, interrupts>>

\* ------------------------------------------------------------------ main
\* line 17 without the lookup
is_ffmpeg_installed_always == TRUE

\* line 17
is_ffmpeg_installed == ffmpeg_on_path

\* lines 95-97
CheckFfmpeg ==
    /\ pc = "check_ffmpeg"
    /\ IF is_ffmpeg_installed
       THEN /\ log' = Logged(<<"which", "ffmpeg">>)
            /\ pc' = "check_input"
            /\ UNCHANGED ending
       ELSE /\ log' = Logged(<<"which", "ffmpeg">>)
                          \o <<<<"print", "Error: ffmpeg is required but not installed. Aborting.">>>>
            /\ Leave("SystemExit1")
    /\ UNCHANGED <<envVars, fs, temp_subtitle_file, ffmpeg_cmd, process,
                   children, pending, rwVars, interrupts>>

\* lines 99-103
CheckInput ==
    /\ pc = "check_input"
    /\ IF input_is_file
       THEN /\ log' = Logged(<<"is_file", "input">>)
            /\ pc' = "check_dump"
            /\ UNCHANGED ending
       ELSE /\ log' = Logged(<<"is_file", "input">>)
                          \o <<<<"print", "Error: Input file not found.">>>>
            /\ Leave("SystemExit1")
    /\ UNCHANGED <<envVars, fs, temp_subtitle_file, ffmpeg_cmd, process,
                   children, pending, rwVars, interrupts>>

\* line 105 with the flag ignored
DumpRequested_never == FALSE

\* line 105: the condition
DumpRequested == args.dump_subtitles

\* line 105
CheckDump ==
    /\ pc = "check_dump"
    /\ pc' = IF DumpRequested THEN "dump_run" ELSE "check_both"
    /\ UNCHANGED <<envVars, fs, temp_subtitle_file, ffmpeg_cmd, process,
                   children, pending, ending, log, rwVars, interrupts>>

\* lines 46-57
ProbeCmd ==
    <<<<"ffprobe">>, <<"-loglevel">>, <<"error">>, <<"-select_streams">>,
      <<"s">>, <<"-show_entries">>, <<"stream=index:stream_tags=language">>,
      <<"-of">>, <<"default=noprint_wrappers=1">>, InputFile>>

\* line 45: subprocess.run starts the probing binary, or fails to
DumpRun ==
    /\ pc = "dump_run"
    /\ IF ffprobe_on_path
       THEN /\ children' = Spawn("ffprobe", ProbeCmd)
            /\ pc' = "dump_wait"
            /\ UNCHANGED ending
       ELSE /\ Leave("FileNotFoundError")
            /\ UNCHANGED children
    /\ UNCHANGED <<envVars, fs, temp_subtitle_file, ffmpeg_cmd, process,
                   pending, log, rwVars, interrupts>>

\* the child spawned last exits with status rc
Exited(rc) ==
    [children EXCEPT ![Len(children)] = [@ EXCEPT !.status = "exited", !.rc = rc]]

\* process.kill() of the k-th child: no effect once it has exited
Killed(k) ==
    [children EXCEPT ![k] =
        [@ EXCEPT !.status = IF @ = "running" THEN "killed" ELSE @]]

\* line 45: subprocess.run waits for the probing binary, whatever its status
DumpWait ==
    /\ pc = "dump_wait"
    /\ \E rc \in {0, 1} : children' = Exited(rc)
    /\ pc' = "dump_exit"
    /\ UNCHANGED <<envVars, fs, temp_subtitle_file, ffmpeg_cmd, process,
                   pending, ending, log, rwVars, interrupts>>

\* line 59
DumpExit ==
    /\ pc = "dump_exit"
    /\ Leave("SystemExit0")
    /\ UNCHANGED <<envVars, fs, temp_subtitle_file, ffmpeg_cmd, process,
                   children, pending, log, rwVars, interrupts>>

\* line 108 with the check left out
BothSources_never == FALSE

\* line 108: the condition
BothSources == args.subtitle_track # None /\ args.subtitle_file # None

\* lines 108-110
CheckBoth ==
    /\ pc = "check_both"
    /\ IF BothSources
       THEN /\ log' = Logged(<<"print", "Error: Use either -t or -s, not both.">>)
            /\ Leave("SystemExit1")
       ELSE /\ pc' = "acquire"
            /\ UNCHANGED <<ending, log>>
    /\ UNCHANGED <<envVars, fs, temp_subtitle_file, ffmpeg_cmd, process,
                   children, pending, rwVars, interrupts>>

\* lines 113, 125-129: the branch on the subtitle source
Acquire ==
    /\ pc = "acquire"
    /\ IF args.subtitle_track # None
       THEN /\ pc' = "mktemp"
            /\ UNCHANGED <<temp_subtitle_file, pending, log>>
       ELSE IF args.subtitle_file # None
       THEN /\ temp_subtitle_file' = args.subtitle_file[1]
            /\ pc' = "check_subtitle"
            /\ UNCHANGED <<pending, log>>
       ELSE /\ log' = Logged(<<"print", "Error: Either -t or -s must be specified.">>)
            /\ Raise("SystemExit1")
            /\ UNCHANGED temp_subtitle_file
    /\ UNCHANGED <<envVars, fs, ffmpeg_cmd, process, children, ending, rwVars,
                   interrupts>>

\* tempfile.mktemp(suffix=".srt"): a path that names no file
MktempPath(pf) == IF pf = "nt" THEN TmpNt ELSE TmpPosix

\* line 114
Mktemp ==
    /\ pc = "mktemp"
    /\ ~IsFile(fs, MktempPath(platform))
    /\ temp_subtitle_file' = MktempPath(platform)
    /\ pc' = "extract_run"
    /\ UNCHANGED <<envVars, fs, ffmpeg_cmd, process, children, pending, ending,
                   log, rwVars, interrupts>>

\* lines 116-123
ExtractCmd ==
    <<<<"ffmpeg">>, <<"-i">>, InputFile, <<"-map">>,
      <<"0:s:">> \o PyStr(args.subtitle_track[1]), temp_subtitle_file>>

\* line 115: subprocess.run starts the extraction
ExtractRun ==
    /\ pc = "extract_run"
    /\ children' = Spawn("ffmpeg", ExtractCmd)
    /\ pc' = "extract_wait"
    /\ UNCHANGED <<envVars, fs, temp_subtitle_file, ffmpeg_cmd, process,
                   pending, ending, log, rwVars, interrupts>>

\* what the extraction may leave at the temporary path
Extracted == {Absent} \cup {FileOf(c) : c \in SmallFiles}

\* line 115: subprocess.run waits for the extraction; its status is not read
ExtractWait ==
    /\ pc = "extract_wait"
    /\ \E rc \in {0, 1}, made \in Extracted :
           /\ children' = [Exited(rc) EXCEPT ![Len(children)].wrote = made.exists]
           /\ fs' = [fs EXCEPT ![temp_subtitle_file] = made]
    /\ pc' = "check_subtitle"
    /\ UNCHANGED <<envVars, temp_subtitle_file, ffmpeg_cmd, process, pending,
                   ending, log, rwVars, interrupts>>

\* line 131 with the check left out
SubtitleMissing_never == FALSE

\* line 131: the condition
SubtitleMissing == ~IsFile(fs, temp_subtitle_file)

\* lines 131-137
CheckSubtitle ==
    /\ pc = "check_subtitle"
    /\ IF SubtitleMissing
       THEN /\ log' = Logged(<<"is_file", "subtitle">>)
                          \o <<<<"print", "Error: Subtitle file not created successfully.">>>>
            /\ Raise("SystemExit1")
       ELSE /\ log' = Logged(<<"is_file", "subtitle">>)
                          \o <<<<"print", "Processing subtitle font sizes...">>>>
            /\ pc' = "rw_read"
            /\ UNCHANGED pending
    /\ UNCHANGED <<envVars, fs, temp_subtitle_file, ffmpeg_cmd, process,
                   children, ending, rwVars, interrupts>>

\* lines 142-144: the subtitle path as the filter graph wants it
FilterPath(path) ==
    PyReplace(PyReplace(path, <<"bs">>, <<"/">>), <<":">>, <<"bs", "bs", ":">>)

\* lines 140-174
TranscodeCmd ==
    <<<<"ffmpeg">>, <<"-i">>, InputFile>>
    \o (IF args.audio_track # None
        THEN <<<<"-map">>, <<"0:a:">> \o PyStr(args.audio_track[1])>>
        ELSE <<>>)
    \o <<<<"-map">>, <<"0:0">>, <<"-movflags">>, <<"+faststart">>,
         <<"-pix_fmt">>, <<"yuv420p">>, <<"-crf">>, <<"23">>, <<"-vf">>,
         <<"subtitles=">> \o FilterPath(temp_subtitle_file),
         <<"-c:a">>, <<"ac3">>, InputStem \o <<"_processed.mp4">>>>
    \o (IF args.use_gpu
        THEN <<<<"-c:v">>, <<"h264_nvenc">>, <<"-preset">>, <<"p7">>,
               <<"-tune">>, <<"hq">>>>
        ELSE <<<<"-c:v">>, <<"libx264">>, <<"-preset">>, <<"veryslow">>,
               <<"-tune">>, <<"animation">>>>)

\* lines 140-176: the command is built and process is bound to None
BuildCmd ==
    /\ pc = "build_cmd"
    /\ ffmpeg_cmd' = TranscodeCmd
    /\ process' = 0
    /\ pc' = "popen"
    /\ UNCHANGED <<envVars, fs, temp_subtitle_file, children, pending, ending,
                   log, rwVars, interrupts>>

\* line 178, right-hand side: the transcode child is started
Popen ==
    /\ pc = "popen"
    /\ children' = Spawn("ffmpeg", ffmpeg_cmd)
    /\ pc' = "assign"
    /\ UNCHANGED <<envVars, fs, temp_subtitle_file, ffmpeg_cmd, process,
                   pending, ending, log, rwVars, interrupts>>

\* line 178, left-hand side: process is bound to the child
Assign ==
    /\ pc = "assign"
    /\ process' = Len(children)
    /\ pc' = "wait"
    /\ UNCHANGED <<envVars, fs, temp_subtitle_file, ffmpeg_cmd, children,
                   pending, ending, log, rwVars, interrupts>>

\* lines 179-180: the child exits, its status is not read
Wait ==
    /\ pc = "wait"
    /\ \E rc \in {0, 1} : children' = Exited(rc)
    /\ log' = Logged(<<"print", "Processing completed successfully.">>)
    /\ Raise("none")
    /\ UNCHANGED <<envVars, fs, temp_subtitle_file, ffmpeg_cmd, process,
                   ending, rwVars, interrupts>>

\* lines 181-182
Except ==
    /\ pc = "except"
    /\ log' = Logged(<<"print", "Aborting...">>)
    /\ pc' = "kill"
    /\ UNCHANGED <<envVars, fs, temp_subtitle_file, ffmpeg_cmd, process,
                   children, pending, ending, rwVars, interrupts>>

\* line 183: process.kill(), an AttributeError while process is None
Kill ==
    /\ pc = "kill"
    /\ IF process = 0
       THEN /\ Raise("AttributeError")
            /\ UNCHANGED children
       ELSE /\ children' = Killed(process)
            /\ Raise("none")
    /\ UNCHANGED <<envVars, fs, temp_subtitle_file, ffmpeg_cmd, process,
                   ending, log, rwVars, interrupts>>

\* line 186 without its left operand
CleanupWanted_always == TRUE

\* line 186, left operand
CleanupWanted == args.subtitle_track # None

\* line 186: the condition of the finally clause
Finally ==
    /\ pc = "finally"
    /\ IF ~CleanupWanted
       THEN /\ FinishWith(pending)
            /\ UNCHANGED log
       ELSE IF temp_subtitle_file = <<>>
       THEN /\ Leave("UnboundLocalError")
            /\ log' = Logged(<<"cleanup", "raised">>)
       ELSE IF IsFile(fs, temp_subtitle_file)
       THEN /\ pc' = "unlink"
            /\ log' = Logged(<<"cleanup", "is_file">>)
            /\ UNCHANGED ending
       ELSE /\ FinishWith(pending)
            /\ log' = Logged(<<"cleanup", "is_file">>)
    /\ UNCHANGED <<envVars, fs, temp_subtitle_file, ffmpeg_cmd, process,
                   children, pending, rwVars, interrupts>>

\* line 187 without effect
Unlinked_not(f, path) == f

\* line 187: Path.unlink()
Unlinked(f, path) == [f EXCEPT ![path] = Absent]

\* line 187
Unlink ==
    /\ pc = "unlink"
    /\ fs' = Unlinked(fs, temp_subtitle_file)
    /\ log' = Logged(<<"cleanup", "unlink">>)
    /\ FinishWith(pending)
    /\ UNCHANGED <<envVars, temp_subtitle_file, ffmpeg_cmd, process, children,
                   pending, rwVars, interrupts>>

\* ---------------------------------------------------------- interruption
\* the positions before the try statement of line 112
BeforeTry ==
    {"check_ffmpeg", "check_input", "check_dump", "dump_run", "dump_wait",
     "dump_exit", "check_both"}
\* the positions inside the try statement of line 177
InnerTry == {"popen", "assign", "wait"}
\* the positions inside the finally clause of line 185
InFinally == {"finally", "unlink"}

\* Ctrl-C: a KeyboardInterrupt is raised at main()'s position.
\* subprocess.run kills the child it waits for; a with statement closes its
\* file; an extraction that is killed may leave a partial file.
Interrupt ==
    /\ pc # "done"
    /\ interrupts < MaxInterrupts
    /\ interrupts' = interrupts + 1
    /\ log' = Logged(<<"KeyboardInterrupt", pc>>)
    /\ IF pc = "rw_loop"
       THEN /\ fs' = Flush(fs, temp_subtitle_file, buf, platform)
            /\ UNCHANGED children
       ELSE IF pc = "extract_wait"
       THEN \E made \in Extracted :
                /\ fs' = [fs EXCEPT ![temp_subtitle_file] = made]
                /\ children' = [Killed(Len(children)) EXCEPT
                                    ![Len(children)].wrote = made.exists]
       ELSE IF pc = "dump_wait"
       THEN /\ children' = Killed(Len(children))
            /\ UNCHANGED fs
       ELSE UNCHANGED <<fs, children>>
    /\ IF pc \in BeforeTry \cup InFinally
       THEN /\ Leave("KeyboardInterrupt")
            /\ UNCHANGED pending
       ELSE IF pc \in InnerTry
       THEN /\ pc' = "except"
            /\ UNCHANGED <<pending, ending>>
       ELSE /\ Raise("KeyboardInterrupt")
            /\ UNCHANGED ending
    /\ UNCHANGED <<envVars, temp_subtitle_file, ffmpeg_cmd, process, rwVars>>

\* --------------------------------------------------------- specifications
\* a run of main() that no signal interrupts
Next ==
    \/ CheckFfmpeg \/ CheckInput \/ CheckDump
    \/ DumpRun \/ DumpWait \/ DumpExit
    \/ CheckBoth \/ Acquire \/ Mktemp \/ ExtractRun \/ ExtractWait
    \/ CheckSubtitle
    \/ RwRead \/ RwOpen \/ RwWrite \/ RwAbort \/ RwClose
    \/ BuildCmd \/ Popen \/ Assign \/ Wait
    \/ Finally \/ Unlink

Spec == Init /\ [][Next]_vars

\* a run of main() the operator may interrupt at any position
NextInt == Next \/ Interrupt \/ Except \/ Kill

SpecInt == Init /\ [][NextInt]_vars

\* process_subtitles alone, on every file of at most MaxItems items
NextRewrite == RwRead \/ RwOpen \/ RwWrite \/ RwAbort \/ RwClose

SpecRewrite == InitRewrite /\ [][NextRewrite]_vars

\* ------------------------------------------------- vocabulary of claims
Ended == pc = "done"

Logs(entry) == \E k \in 1..Len(log) : log[k] = entry

\* process_subtitles was entered
RewriterStarted ==
    \/ pc \in {"rw_read", "rw_open", "rw_loop"}
    \/ Logs(<<"print", "Processing subtitle font sizes...">>)

\* a child that runs the transcoding command of lines 146-174
IsTranscode(c) == c.bin = "ffmpeg" /\ ffmpeg_cmd # <<>> /\ c.argv = ffmpeg_cmd

TrackAndFile == args.subtitle_track # None /\ args.subtitle_file # None
NoSource == args.subtitle_track = None /\ args.subtitle_file = None
ExtractionMode == args.subtitle_track # None /\ args.subtitle_file = None

NoTempFile == ~IsFile(fs, TmpPosix) /\ ~IsFile(fs, TmpNt)

\* ---------------------------------------------------------------- claims
\* C1 as stated: with both -t and -s, whatever the other flags, the run
\* ends with exit status 1, no child process is ever spawned and no
\* subtitle is acquired or rewritten.
C1_AsStated ==
    TrackAndFile =>
        /\ children = <<>>
        /\ temp_subtitle_file = <<>>
        /\ ~RewriterStarted
        /\ fs = fs0
        /\ Ended => ExitStatus(ending) = 1

\* C1, amended: with both -t and -s and without -d, the run ends with exit
\* status 1 by sys.exit and spawns no child; with or without -d it spawns no
\* ffmpeg child, acquires no subtitle and rewrites nothing, and any child it
\* spawns is the probing binary of a -d run.
C1_BothSourcesRejected ==
    TrackAndFile =>
        /\ \A k \in 1..Len(children) :
               children[k].bin = "ffprobe" /\ args.dump_subtitles
        /\ temp_subtitle_file = <<>>
        /\ ~RewriterStarted
        /\ fs = fs0
        /\ ~args.dump_subtitles =>
               /\ children = <<>>
               /\ Ended => ending = "SystemExit1" /\ ExitStatus(ending) = 1

\* C1's case: both given, no -d, ffmpeg and the input are there, and the
\* check of line 108 has ended the run
C1_Witness ==
    /\ Ended
    /\ TrackAndFile
    /\ ~args.dump_subtitles
    /\ Logs(<<"print", "Error: Use either -t or -s, not both.">>)
    /\ ending = "SystemExit1"

\* C3 as stated: with -d and an input file that exists, only ffprobe is ever
\* spawned and the run ends with exit status 0.
C3_AsStated ==
    (args.dump_subtitles /\ input_is_file) =>
        /\ \A k \in 1..Len(children) : children[k].bin = "ffprobe"
        /\ Ended => ExitStatus(ending) = 0

\* C3, amended: with -d and an input file that exists, ffmpeg is never
\* invoked; if moreover ffmpeg is on the search path and the probing binary
\* can be started, the probing binary is the one child spawned and the run
\* ends with exit status 0, whatever the probe's exit status and whatever
\* -t and -s are.
C3_DumpOnlyProbes ==
    (args.dump_subtitles /\ input_is_file) =>
        /\ \A k \in 1..Len(children) : children[k].bin = "ffprobe"
        /\ Len(children) <= 1
        /\ ~RewriterStarted
        /\ (Ended /\ ffmpeg_on_path /\ ffprobe_on_path) =>
               /\ ending = "SystemExit0"
               /\ ExitStatus(ending) = 0
               /\ Len(children) = 1
               /\ children[1].status = "exited"

\* C3's case: a -d run with -t and -s both given, whose probe exited with a
\* non-zero status
C3_Witness ==
    /\ Ended
    /\ args.dump_subtitles
    /\ TrackAndFile
    /\ Len(children) = 1
    /\ children[1].bin = "ffprobe"
    /\ children[1].rc = 1
    /\ ending = "SystemExit0"

\* the extraction child has returned and left no file at the temporary path
ExtractionFailed ==
    /\ ExtractionMode
    /\ Len(children) >= 1
    /\ children[1].bin = "ffmpeg"
    /\ children[1].status = "exited"
    /\ ~children[1].wrote

\* C4: in extraction mode, when the extraction child has returned and the
\* temporary path is no regular file, the run ends with exit status 1, the
\* rewriter and the transcode child are never started, and no temporary
\* subtitle file exists when the run ends.
C4_FailedExtraction ==
    ExtractionFailed =>
        /\ Len(children) = 1
        /\ ~RewriterStarted
        /\ pc \in {"check_subtitle", "finally", "done"}
        /\ lines = <<>> /\ ffmpeg_cmd = <<>>
        /\ Ended => /\ ending = "SystemExit1"
                    /\ ExitStatus(ending) = 1
                    /\ NoTempFile

\* C4's case: a run in extraction mode has ended after an extraction that
\* left no file
C4_Witness ==
    /\ Ended
    /\ ExtractionFailed
    /\ temp_subtitle_file # <<>>
    /\ Logs(<<"print", "Error: Subtitle file not created successfully.">>)

\* C6: when ffmpeg is not on the search path the run reports the error and
\* ends with a non-zero status before anything else: no child is spawned,
\* the input file is not examined, and no subtitle file is created, changed
\* or deleted.
C6_MissingFfmpeg ==
    ~ffmpeg_on_path =>
        /\ children = <<>>
        /\ ~Logs(<<"is_file", "input">>)
        /\ ~Logs(<<"is_file", "subtitle">>)
        /\ temp_subtitle_file = <<>>
        /\ fs = fs0
        /\ pc \in {"check_ffmpeg", "done"}
        /\ Ended =>
               /\ ExitStatus(ending) # 0
               /\ ending = "SystemExit1"
               /\ log = <<<<"which", "ffmpeg">>,
                          <<"print", "Error: ffmpeg is required but not installed. Aborting.">>>>

\* C6's case: a run without ffmpeg has ended, with a subtitle file of the
\* user on disk and an input file that exists
C6_Witness ==
    /\ Ended
    /\ ~ffmpeg_on_path
    /\ input_is_file
    /\ IsFile(fs0, UserSub)
    /\ args.subtitle_file # None

\* C7: with neither -t nor -s and without -d the run ends with exit status
\* 1, spawns no child, and its cleanup step neither raises nor touches a
\* file.
C7_NoSourceRejected ==
    (NoSource /\ ~args.dump_subtitles) =>
        /\ children = <<>>
        /\ fs = fs0
        /\ temp_subtitle_file = <<>>
        /\ \A k \in 1..Len(log) : log[k][1] # "cleanup"
        /\ Ended => ending = "SystemExit1" /\ ExitStatus(ending) = 1

\* C7's case: the run reached the else branch of line 127 and has ended
\* through the finally clause
C7_Witness ==
    /\ Ended
    /\ NoSource
    /\ ~args.dump_subtitles
    /\ pending = "SystemExit1"
    /\ Logs(<<"print", "Error: Either -t or -s must be specified.">>)

\* a KeyboardInterrupt arrived while main() was at one of the positions ps
InterruptedAt(ps) ==
    \E k \in 1..Len(log) : log[k][1] = "KeyboardInterrupt" /\ log[k][2] \in ps

\* C2 as stated: on every exit path, interruption at any step included, the
\* temporary file of extraction mode does not exist when main() ends, and a
\* subtitle file of the user is never deleted.
C2_AsStated ==
    Ended =>
        /\ args.subtitle_track # None => NoTempFile
        /\ IsFile(fs0, UserSub) => IsFile(fs, UserSub)

\* C2, amended: on every exit path on which no interruption arrives while
\* the finally clause itself runs (normal completion, sys.exit, an unhandled
\* exception, an interruption at any step before the cleanup), the temporary
\* file of extraction mode does not exist when main() ends; and on every
\* path a subtitle file of the user is never deleted.
C2_TempFileRemoved ==
    /\ IsFile(fs0, UserSub) => IsFile(fs, UserSub)
    /\ (Ended /\ ~InterruptedAt(InFinally)) =>
           (args.subtitle_track # None => NoTempFile)

\* C2's case: the extraction wrote the temporary file, the run was
\* interrupted after that, and the cleanup has deleted the file
C2_Witness ==
    /\ Ended
    /\ ExtractionMode
    /\ Len(children) >= 1
    /\ children[1].wrote
    /\ InterruptedAt({"rw_read", "rw_open", "rw_loop", "build_cmd", "wait"})
    /\ Logs(<<"cleanup", "unlink">>)
    /\ NoTempFile

\* C5, for the runs with one interruption: after an interruption during the
\* transcode step (while the child is started or waited for) main() has
\* printed the abort message and killed the child: it never ends with a
\* started transcode child still running, and the handler does not fail.
C5_AsStated ==
    (Ended /\ interrupts = 1 /\ InterruptedAt(InnerTry)) =>
        /\ Logs(<<"print", "Aborting...">>)
        /\ ending # "AttributeError"
        /\ \A k \in 1..Len(children) :
               IsTranscode(children[k]) => children[k].status # "running"

\* --------------------------------------------- claims about the rewriter
\* where the first line of the content c ends: after its LF, its CR LF or
\* its lone CR, or at the end of c
FirstLineEnd(c) ==
    IF \E p \in 1..Len(c) : c[p] \in {"CR", "LF"}
    THEN LET p == CHOOSE q \in 1..Len(c) :
                      /\ c[q] \in {"CR", "LF"}
                      /\ \A r \in 1..(q - 1) : c[r] \notin {"CR", "LF"}
         IN  IF c[p] = "CR" /\ p < Len(c) /\ c[p + 1] = "LF" THEN p + 1 ELSE p
    ELSE Len(c)

RECURSIVE RawLines(_)
\* the lines of a file as they are on disk, each with its own terminator
RawLines(c) ==
    IF c = <<>> THEN <<>>
    ELSE <<SubSeq(c, 1, FirstLineEnd(c))>>
             \o RawLines(SubSeq(c, FirstLineEnd(c) + 1, Len(c)))

\* process_subtitles has returned or raised
RewriterEnded == pc \in {"build_cmd", "finally"}

\* C8: however the rewriting ends, the file has as many lines as before, in
\* the same order, and every line without 'face' is byte-identical to the
\* line at its position before.
C8_AsStated ==
    RewriterEnded =>
        LET before == RawLines(fs0[UserSub].data)
            after == RawLines(fs[UserSub].data)
        IN  /\ Len(after) = Len(before)
            /\ \A i \in 1..Len(before) :
                   (i <= Len(after) /\ ~PyIn(<<"face">>, before[i]))
                       => after[i] = before[i]

\* the text size="<digits>" occupies the positions p..e of the line
AttrAt(line, p, e) ==
    /\ 1 <= p /\ p + 3 <= e /\ e <= Len(line)
    /\ line[p] = "size=" /\ line[p + 1] = "dq" /\ line[e] = "dq"
    /\ \A k \in (p + 2)..(e - 1) : IsDigit(line[k])

SizeCount(line) == Cardinality({p \in 1..Len(line) : line[p] = "size="})

\* C9, for the lines with one size attribute: with a forced size F, every
\* line with 'face' and an attribute size="<digits>", whatever the digits
\* (leading zeros included), is written with that attribute as size="F".
C9_AsStated ==
    (pc = "build_cmd" /\ args.font_size # None) =>
        \A i \in 1..Len(lines) :
            \A p \in 1..Len(lines[i]), e \in 1..Len(lines[i]) :
                (/\ PyIn(<<"face">>, lines[i])
                 /\ SizeCount(lines[i]) = 1
                 /\ AttrAt(lines[i], p, e))
                    => buf[i] = SubSeq(lines[i], 1, p - 1)
                                    \o SizeAttr(args.font_size[1])
                                    \o SubSeq(lines[i], e + 1, Len(lines[i]))

\* the size a line's attribute with the digits ds is to be rewritten to
NewSizeFor(ds) ==
    IF args.font_size # None THEN args.font_size[1]
    ELSE map_font_size(DecimalValue(ds))

\* p..e is the first size="<digits>" of the line
FirstAttrAt(line, p, e) ==
    /\ AttrAt(line, p, e)
    /\ \A q \in 1..(p - 1) : line[q] # "size="

\* C10 as stated, for the lines whose first size attribute has no leading
\* zero: a written line with 'face' differs from the line read in its first
\* size="<digits>" only; later size="..." occurrences, with the same or
\* another number, and all other text are unchanged.
C10_AsStated ==
    \A i \in 1..Len(buf) :
        \A p \in 1..Len(lines[i]), e \in 1..Len(lines[i]) :
            (/\ PyIn(<<"face">>, lines[i])
             /\ FirstAttrAt(lines[i], p, e)
             /\ lines[i][p + 2] # "0")
                => buf[i] = SubSeq(lines[i], 1, p - 1)
                                \o SizeAttr(NewSizeFor(SubSeq(lines[i], p + 2, e - 1)))
                                \o SubSeq(lines[i], e + 1, Len(lines[i]))

\* out is line with every occurrence of old replaced by new, said position
\* by position: occurrences of old cannot overlap, each becomes new, and
\* every other token keeps its place relative to them
ReplacedEverywhere(line, out, old, new) ==
    LET Occ == {p \in 1..Len(line) : OccursAt(line, old, p)}
        delta == Len(new) - Len(old)
        Shift(j) == Cardinality({q \in Occ : q < j}) * delta
        Covered(j) == \E q \in Occ : q <= j /\ j < q + Len(old)
    IN  /\ Len(out) = Len(line) + Cardinality(Occ) * delta
        /\ \A q \in Occ : OccursAt(out, new, q + Shift(q))
        /\ \A j \in 1..Len(line) :
               ~Covered(j) =>
                   LET behind == Cardinality({q \in Occ : q + Len(old) <= j})
                   IN  out[j + behind * delta] = line[j]

\* C10, amended: a written line with 'face' is the line read with every
\* occurrence of size="N" replaced by size="<new size>", N being the decimal
\* form, without leading zeros, of the number parsed after the line's first
\* size="; occurrences of size="..." with other digits and all other text
\* are unchanged.
C10_ReplacesEveryEqualSize ==
    \A i \in 1..Len(buf) :
        PyIn(<<"face">>, lines[i]) =>
            LET text == PySplit(PySplit(lines[i], <<"size=", "dq">>)[2], <<"dq">>)[1]
                n == PyInt(text).val
            IN  ReplacedEverywhere(lines[i], buf[i], SizeAttr(n),
                                   SizeAttr(NewSizeFor(PyStr(n))))

\* C10's case: a line with 'face' was written whose first size occurs twice
\* and which holds a size with another number as well
C10_Witness ==
    \E i \in 1..Len(buf) :
        /\ PyIn(<<"face">>, lines[i])
        /\ Cardinality({p \in 1..Len(lines[i]) :
                            OccursAt(lines[i], Attr(<<"3", "2">>), p)}) = 2
        /\ \E p \in 1..Len(lines[i]) : OccursAt(lines[i], Attr(<<"5">>), p)
        /\ buf[i] # lines[i]
        /\ \E p \in 1..Len(buf[i]) : OccursAt(buf[i], Attr(<<"5">>), p)

=============================================================================
